---- MODULE Spec2Model ----
(***************************************************************************)
(* Model of the transaction submission pipeline of hlf-sdk-go:             *)
(* the chaincode invoke builder (client/chaincode, invokeBuilder), its     *)
(* argument-error map, the envelope assembly, and the tx subscription      *)
(* (client/deliver/subs, TxSubscription) the tx-waiter awaits.             *)
(*                                                                         *)
(* Spec       one Do call of the invoke builder, from the builder calls    *)
(*            to Do's return.                                              *)
(* SpecSubs   one TxSubscription under a block dispatcher, with one       *)
(*            caller of Result.                                            *)
(* SpecGRPC   concurrent calls of grpc.ConnectionFromConfigs.              *)
(* SpecClient the construction of a core (config.MSP.Signer, client.New    *)
(*            with its options) and concurrent calls of core.Channel.      *)
(*                                                                         *)
(* Strings whose length matters are sequences of one-character strings.    *)
(* Byte slices are records [enc, v]: enc tells how v was encoded.          *)
(* Errors are records [kind, a, b, at]: kind is the sentinel an            *)
(* errors.Is test sees, a and b are the numbers the message reports, at    *)
(* is the prefix Do wraps the error with.                                  *)
(***************************************************************************)
EXTENDS Integers, Sequences, FiniteSets, TLC

VARIABLES
    args,            \* invokeBuilder.args
    err,             \* invokeBuilder.err.container: TruncatableString -> error
    doOptions,       \* invokeBuilder.doOptions
    nCalls,          \* builder calls made so far
    marshalFailed,   \* history: some ArgJSON argument failed json.Marshal
    orderer,         \* Core.orderer (Nil or an orderer handle)
    endorsingMSPs,   \* Core.endorsingMSPs
    pc,              \* position of the Do call
    options,         \* the options Do was called with
    doOpts,          \* Do's local api.DoOptions
    proposal,        \* Do's signed proposal (NoProposal before line 203)
    peerResponses,   \* Do's peerResponses
    envelope,        \* Do's envelope (NoEnvelope before line 225)
    ret,             \* what Do returned: [resp, txID, err]
    ctx,             \* the caller's scope: [cancelled, at]
    calls,           \* history: [endorse, broadcast, waiterInitFailed, mspFailed]
    accepted,        \* the orderer accepted the envelope
    sub,             \* the waiter's TxSubscription: [state, txId, result]
    ledger,          \* the deliver stream: [n] blocks produced, [code] of the tx (-1: none)
    ts,              \* a TxSubscription: [txId, result, closed, errc]
    hub,             \* the dispatcher of blocks: [seen, sending, others, resolved]
    res,             \* a call of TxSubscription.Result: [pc, code, err], via the select's case
    DefaultGRPCRetryConfig,  \* grpc.DefaultGRPCRetryConfig: [Max, Timeout]
    conns,           \* the calls of ConnectionFromConfigs, one per caller
    signer,          \* a call of config.MSP.Signer: [pc, m, dir, identity, err]
    newc,            \* a call of client.New: [pc, opts, applied, err, fault, tolerant]
    core,            \* the core New returned (NoCore before, and when New fails)
    pools,           \* the peer pools: pool -> the <<mspID, peer>> added to it
    chcalls          \* the calls of core.Channel, one per caller

subsVars == <<ts, hub, res>>
grpcVars == <<DefaultGRPCRetryConfig, conns>>
clientVars == <<signer, newc, core, pools, chcalls>>

\* The state of the components a specification leaves alone
componentVars == <<subsVars, grpcVars, clientVars>>

vars == <<args, err, doOptions, nCalls, marshalFailed, orderer, endorsingMSPs,
          pc, options, doOpts, proposal, peerResponses, envelope, ret, ctx, calls,
          accepted, sub, ledger, componentVars>>

builderVars == <<args, err, doOptions, nCalls, marshalFailed>>
coreVars == <<orderer, endorsingMSPs>>

-----------------------------------------------------------------------------
(* Bounds *)

MaxBuilderCalls == 2     \* builder calls before Do
MaxBlocks == 2           \* blocks the deliver stream produces

-----------------------------------------------------------------------------
(* Values *)

Nil == [kind |-> "nil", a |-> 0, b |-> 0, at |-> ""]

Error(kind, a, b) == [kind |-> kind, a |-> a, b |-> b, at |-> ""]

\* fmt.Errorf("<at>: %w", e): the sentinel stays visible through the wrap
Wrap(at, e) == [e EXCEPT !.at = at]

\* fmt.Errorf("<at>: %s", e): only the text is kept, the sentinel is lost
WrapText(at, e) == [kind |-> "error", a |-> 0, b |-> 0, at |-> at]

Rep(c, n) == [i \in 1..n |-> c]

Identities == {"User1@Org1", "User2@Org1"}
CoreIdentity == "User1@Org1"
MSPLists == {<<>>, <<"Org1MSP">>, <<"Org1MSP", "Org2MSP">>}

Fn == "set"

\* peer.TxValidationCode: VALID = 0, MVCC_READ_CONFLICT = 11
TxValidationCode_VALID == 0

TxValidationCode_MVCC_READ_CONFLICT == 11

Codes == {TxValidationCode_VALID, TxValidationCode_MVCC_READ_CONFLICT}

NoTxID == <<>>
NoProposal == [Signer |-> "", Args |-> <<>>, TxID |-> NoTxID]
NoEnvelope == [signer |-> "", txID |-> NoTxID, endorsements |-> <<>>]
NoResponse == [hash |-> "", resp |-> ""]
NilResponse == "nil"
NoRet == [resp |-> NilResponse, txID |-> NoTxID, err |-> Nil]
NoSub == [state |-> "none", txId |-> NoTxID, result |-> <<>>]

-----------------------------------------------------------------------------
(* Argument encoding *)

\* Values a caller hands to ArgJSON: gosyntax is fmt.Sprintf("%#v", arg),
\* ok tells whether json.Marshal accepts the value (a channel or a func is
\* refused). One rendering fits the 50 characters of the error map's keys,
\* one does not.
ArgOK == [v |-> "k", ok |-> TRUE, gosyntax |-> Rep("k", 3)]
ArgChan == [v |-> "c1", ok |-> FALSE, gosyntax |-> Rep("c", 50)]
ArgFunc == [v |-> "c2", ok |-> FALSE, gosyntax |-> Rep("c", 53)]

\* What the callers of the model pass to ArgJSON, ArgString and ArgBytes
ArgJSONInputs == { <<ArgOK>>, <<ArgChan>>, <<ArgOK, ArgFunc>>, <<ArgFunc, ArgChan, ArgOK>> }
ArgStringInputs == { <<"k", "v">>, <<"v">> }
ArgBytesInputs == { <<[enc |-> "raw", v |-> "b"]>> }

jsonMarshal(arg) == [enc |-> "json", v |-> arg.v]

StringArgsBytes(ss) == [i \in 1..Len(ss) |-> [enc |-> "raw", v |-> ss[i]]]

FnArgs(fn, as) == <<[enc |-> "raw", v |-> fn]>> \o as

TruncSize == 50

makeTruncatableString(str, size) ==
    IF Len(str) <= size
    THEN [Value |-> str, TruncatedByteCount |-> 0]
    ELSE [Value |-> SubSeq(str, 1, size) \o <<".", ".", ".">>,
          TruncatedByteCount |-> Len(str) - size]

newErrArgMap == [k \in {} |-> Nil]

Add(container, arg, e) ==
    (makeTruncatableString(arg.gosyntax, TruncSize) :> e) @@ container

ErrNeverSet(container) == Nil

\* errArgMap.Err: nil for an empty map, else one error listing every entry
Err(container) ==
    IF Cardinality(DOMAIN container) = 0
    THEN Nil
    ELSE Error("BadArgs", Cardinality(DOMAIN container), 0)

RECURSIVE ArgJSONBytes(_)
ArgJSONBytes(in) ==
    IF in = <<>> THEN <<>>
    ELSE IF Head(in).ok
         THEN <<jsonMarshal(Head(in))>> \o ArgJSONBytes(Tail(in))
         ELSE ArgJSONBytes(Tail(in))

RECURSIVE ArgJSONErrs(_, _)
ArgJSONErrs(container, in) ==
    IF in = <<>> THEN container
    ELSE IF Head(in).ok
         THEN ArgJSONErrs(container, Tail(in))
         ELSE ArgJSONErrs(Add(container, Head(in), Error("json", 0, 0)), Tail(in))

-----------------------------------------------------------------------------
(* Builder operations *)

Building == pc = "build" /\ nCalls < MaxBuilderCalls

doVars == <<pc, options, doOpts, proposal, peerResponses, envelope, ret, ctx, calls,
            accepted, sub, ledger>>

ArgBytes(bs) ==
    /\ Building
    /\ args' = bs
    /\ nCalls' = nCalls + 1
    /\ UNCHANGED <<err, doOptions, marshalFailed, coreVars, componentVars, doVars>>

ArgString(ss) ==
    /\ Building
    /\ args' = StringArgsBytes(ss)
    /\ nCalls' = nCalls + 1
    /\ UNCHANGED <<err, doOptions, marshalFailed, coreVars, componentVars, doVars>>

ArgJSON(in) ==
    /\ Building
    /\ err' = ArgJSONErrs(err, in)
    /\ args' = ArgJSONBytes(in)
    /\ marshalFailed' = (marshalFailed \/ \E i \in 1..Len(in) : ~in[i].ok)
    /\ nCalls' = nCalls + 1
    /\ UNCHANGED <<doOptions, coreVars, componentVars, doVars>>

WithIdentity(identity) ==
    /\ Building
    /\ doOptions' = Append(doOptions, [k |-> "identity", id |-> identity, msps |-> <<>>])
    /\ nCalls' = nCalls + 1
    /\ UNCHANGED <<args, err, marshalFailed, coreVars, componentVars, doVars>>

-----------------------------------------------------------------------------
(* Do options (api.DoOption) *)

Option(k, id, msps) == [k |-> k, id |-> id, msps |-> msps]

\* What one option does to the DoOptions it is applied to: [opts, err]
ApplyOpt(opt, o) ==
    CASE opt.k = "identity" -> [opts |-> [o EXCEPT !.Identity = opt.id], err |-> Nil]
      [] opt.k = "msps"     -> [opts |-> [o EXCEPT !.EndorsingMspIDs = opt.msps], err |-> Nil]
      [] OTHER              -> [opts |-> o, err |-> Error("option", 0, 0)]

\* Do, lines 197-201: the options in order, stopping at the first error
RECURSIVE ApplyOptions(_, _)
ApplyOptions(opts, o) ==
    IF opts = <<>> THEN [opts |-> o, err |-> Nil]
    ELSE LET r == ApplyOpt(Head(opts), o)
         IN IF r.err # Nil THEN r ELSE ApplyOptions(Tail(opts), r.opts)

\* The options a caller passes to Do itself
DoOptionLists ==
    { <<>>,
      <<Option("msps", "", <<>>)>>,
      <<Option("msps", "", <<"Org1MSP", "Org2MSP">>)>>,
      <<Option("identity", "User2@Org1", <<>>)>>,
      <<Option("fail", "", <<>>)>> }

-----------------------------------------------------------------------------
(* Proposal, endorsement, envelope *)

Nonces == {1}

\* txID = hash(nonce || creator): distinct inputs give distinct ids
TxID(nonce, creator) == <<"tx", nonce, creator>>

OtherTxID == <<"tx", 0, "other">>

\* tx.Endorsement{...}.SignedProposal(): [proposal, txID, err]
SignedProposal(endorsement, nonce, fault) ==
    IF fault
    THEN [proposal |-> NoProposal, txID |-> NoTxID, err |-> Error("sign", 0, 0)]
    ELSE [proposal |-> [Signer |-> endorsement.Signer, Args |-> endorsement.Args,
                        TxID |-> TxID(nonce, endorsement.Signer)],
          txID |-> TxID(nonce, endorsement.Signer),
          err |-> Nil]

\* peer.ProposalResponse: Payload is the marshalled ProposalResponsePayload
\* (proposal hash and the chaincode's response), Response the response alone
ProposalResponses ==
    { [hash |-> "h",  resp |-> "0x01"],
      [hash |-> "h",  resp |-> "0x02"],
      [hash |-> "hx", resp |-> "0x01"] }

Payload(r) == <<r.hash, r.resp>>

Response(r) == r.resp

\* What one MSP's endorsement came to
MSPResults ==
    [st : {"ok"}, r : ProposalResponses] \cup [st : {"fail", "cancelled"}, r : {NoResponse}]

RECURSIVE Collected(_)
Collected(results) ==
    IF results = <<>> THEN <<>>
    ELSE IF Head(results).st = "ok"
         THEN <<Head(results).r>> \o Collected(Tail(results))
         ELSE Collected(Tail(results))

Some(results, st) == \E i \in 1..Len(results) : results[i].st = st

ErrNotEnoughEndorsements(received, required) ==
    Error("NotEnoughEndorsements", received, required)

\* PeerPool.EndorseOnMSPs: the outcomes [responses, err, failed] the fan-out over
\* mspIDs can have. An MSP that fails makes the aggregate fail with
\* NotEnoughEndorsements; the pool may also hand back only what it
\* collected with a nil error, the case Do's own count check is there for.
\* A cancelled scope aborts the endorsements still in flight.
EndorseOnMSPs(cancelled, mspIDs) ==
    LET n == Len(mspIDs)
        allowed == IF cancelled THEN MSPResults
                   ELSE { m \in MSPResults : m.st # "cancelled" }
        outcome(results) ==
            LET got == Collected(results)
            IN IF Some(results, "fail")
               THEN { [responses |-> got, failed |-> TRUE,
                       err |-> ErrNotEnoughEndorsements(Len(got), n)],
                      [responses |-> got, failed |-> TRUE, err |-> Nil] }
               ELSE IF Some(results, "cancelled")
               THEN { [responses |-> got, failed |-> FALSE,
                       err |-> Error("Cancelled", 0, 0)] }
               ELSE { [responses |-> got, failed |-> FALSE, err |-> Nil] }
    IN UNION { outcome(results) : results \in [1..n -> allowed] }

SamePayloads(responses) ==
    \A i \in 1..Len(responses) : Payload(responses[i]) = Payload(responses[1])

\* protoutil.CreateSignedTx: refuses responses whose payloads differ; fault
\* stands for every other reason it refuses
CreateSignedTx(prop, identity, responses, fault) ==
    IF ~SamePayloads(responses)
    THEN [envelope |-> NoEnvelope, err |-> Error("EndorsementMismatch", 0, 0)]
    ELSE IF fault
    THEN [envelope |-> NoEnvelope, err |-> Error("envelope", 0, 0)]
    ELSE [envelope |-> [signer |-> identity, txID |-> prop.TxID,
                        endorsements |-> responses],
          err |-> Nil]

CreateEnvelopeUnchecked(prop, responses, identity, fault) ==
    [envelope |-> [signer |-> identity, txID |-> prop.TxID, endorsements |-> responses],
     err |-> Nil]

CreateEnvelopeCoreIdentity(prop, responses, identity, fault) ==
    CreateSignedTx(prop, CoreIdentity, responses, fault)

\* CreateEnvelope: unmarshal the proposal, then protoutil.CreateSignedTx
CreateEnvelope(prop, responses, identity, fault) ==
    CreateSignedTx(prop, identity, responses, fault)

-----------------------------------------------------------------------------
(* Do *)

ErrOrdererNotDefined == Error("OrdererNotDefined", 0, 0)

Returned(resp, txID, e) == [resp |-> resp, txID |-> txID, err |-> e]

DoChecksOrdererFirst(container, ord) ==
    IF ord = "nil" THEN ErrOrdererNotDefined ELSE Err(container)

\* Do, lines 176-183: the error Do returns before doing anything, or Nil
DoChecks(container, ord) ==
    IF Err(container) # Nil THEN Err(container)
    ELSE IF ord = "nil" THEN ErrOrdererNotDefined
    ELSE Nil

CountOnlyNonEmpty(responses, mspIDs) == Len(responses) # 0

\* Do, line 220, negated: the responses are as many as the MSPs asked
EnoughEndorsements(responses, mspIDs) ==
    ~(Len(responses) = 0 \/ Len(responses) # Len(mspIDs))

\* Do, lines 176-213, up to the call of EndorseOnMSPs:
\* [pc, doOpts, proposal, ret, waiterInitFailed]
DoStart(opts, waiterFault, nonce, signFault) ==
    LET blank == [Identity |-> "", EndorsingMspIDs |-> <<>>, TxWaiter |-> "nil"]
        stop(o, r, wf) == [pc |-> "done", doOpts |-> o, proposal |-> NoProposal,
                           ret |-> r, waiterInitFailed |-> wf]
        early == DoChecks(err, orderer)
        defaults == [Identity |-> CoreIdentity, EndorsingMspIDs |-> endorsingMSPs,
                     TxWaiter |-> "nil"]
        applied == ApplyOptions(doOptions \o opts, [defaults EXCEPT !.TxWaiter = "self"])
        signed == SignedProposal([Signer |-> applied.opts.Identity,
                                  Args |-> FnArgs(Fn, args)],
                                 nonce, signFault)
    IN IF early # Nil THEN stop(blank, Returned(NilResponse, NoTxID, early), FALSE)
       ELSE IF waiterFault THEN stop(defaults, Returned(NilResponse, NoTxID, Nil), TRUE)
       ELSE IF applied.err # Nil
       THEN stop(applied.opts,
                 Returned(NilResponse, NoTxID, WrapText("apply options", applied.err)),
                 FALSE)
       ELSE IF signed.err # Nil
       THEN stop(applied.opts,
                 Returned(NilResponse, NoTxID, Wrap("create proposal", signed.err)),
                 FALSE)
       ELSE [pc |-> "endorsing", doOpts |-> applied.opts, proposal |-> signed.proposal,
             ret |-> NoRet, waiterInitFailed |-> FALSE]

\* Do, lines 215-228, from the return of EndorseOnMSPs to the envelope:
\* [pc, envelope, ret]
DoEndorsed(out, envFault) ==
    LET txID == proposal.TxID
        stop(r) == [pc |-> "done", envelope |-> NoEnvelope, ret |-> r]
        made == CreateEnvelope(proposal, out.responses, doOpts.Identity, envFault)
    IN IF out.err # Nil
       THEN stop(Returned(NilResponse, txID, Wrap("send proposal", out.err)))
       ELSE IF ~EnoughEndorsements(out.responses, doOpts.EndorsingMspIDs)
       THEN stop(Returned(NilResponse, NoTxID,
                          ErrNotEnoughEndorsements(Len(out.responses),
                                                   Len(doOpts.EndorsingMspIDs))))
       ELSE IF made.err # Nil
       THEN stop(Returned(NilResponse, txID, Wrap("create signed transaction", made.err)))
       ELSE [pc |-> "broadcast", envelope |-> made.envelope, ret |-> NoRet]

\* Do is called: it runs to its first return or to the fan-out of the proposal
DoCall(opts, waiterFault, nonce, signFault) ==
    /\ pc = "build"
    /\ options' = opts
    /\ LET s == DoStart(opts, waiterFault, nonce, signFault)
       IN /\ pc' = s.pc
          /\ doOpts' = s.doOpts
          /\ proposal' = s.proposal
          /\ ret' = s.ret
          /\ calls' = [calls EXCEPT !.waiterInitFailed = s.waiterInitFailed,
                                    !.endorse = IF s.pc = "endorsing" THEN 1 ELSE 0]
    /\ UNCHANGED <<builderVars, coreVars, componentVars, peerResponses, envelope, ctx, accepted,
                   sub, ledger>>

\* The caller cancels the scope while Do is running
Cancel ==
    /\ pc \in {"endorsing", "broadcast", "broadcasting", "wait", "waiting"}
    /\ ~ctx.cancelled
    /\ ctx' = [cancelled |-> TRUE, at |-> pc]
    /\ UNCHANGED <<builderVars, coreVars, componentVars, pc, options, doOpts, proposal, peerResponses,
                   envelope, ret, calls, accepted, sub, ledger>>

\* EndorseOnMSPs returns; Do checks the responses and assembles the envelope
EndorseReturn(out, envFault) ==
    /\ pc = "endorsing"
    /\ out \in EndorseOnMSPs(ctx.cancelled, doOpts.EndorsingMspIDs)
    /\ LET s == DoEndorsed(out, envFault)
       IN /\ pc' = s.pc
          /\ envelope' = s.envelope
          /\ ret' = s.ret
    /\ peerResponses' = out.responses
    /\ calls' = [calls EXCEPT !.mspFailed = out.failed]
    /\ UNCHANGED <<builderVars, coreVars, componentVars, options, doOpts, proposal, ctx, accepted, sub, ledger>>

\* Do reaches line 230 and calls orderer.Broadcast with the envelope
BroadcastCall ==
    /\ pc = "broadcast"
    /\ pc' = "broadcasting"
    /\ calls' = [calls EXCEPT !.broadcast = calls.broadcast + 1]
    /\ UNCHANGED <<builderVars, coreVars, componentVars, options, doOpts, proposal, peerResponses, envelope,
                   ret, ctx, accepted, sub, ledger>>

\* Orderer.Broadcast: the replies a call can get. A scope cancelled before
\* the call was made lets no RPC out; one cancelled during the call races
\* with the orderer's reply.
BroadcastReplies ==
    IF ctx.cancelled /\ ctx.at # "broadcasting"
    THEN {"cancelled"}
    ELSE {"ok", "refused"} \cup (IF ctx.cancelled THEN {"cancelled"} ELSE {})

DoBroadcastedWaitsAnyway(reply) == [pc |-> "wait", ret |-> NoRet]

\* Do, lines 230-235, from the return of Broadcast to the call of Wait:
\* [pc, ret]
DoBroadcasted(reply) ==
    LET e == IF reply = "refused" THEN Error("OrdererRefused", 0, 0)
             ELSE Error("Cancelled", 0, 0)
    IN IF reply # "ok"
       THEN [pc |-> "done",
             ret |-> Returned(NilResponse, proposal.TxID, Wrap("broadcast transaction", e))]
       ELSE [pc |-> "wait", ret |-> NoRet]

BroadcastReturn(reply) ==
    /\ pc = "broadcasting"
    /\ reply \in BroadcastReplies
    /\ LET s == DoBroadcasted(reply)
       IN pc' = s.pc /\ ret' = s.ret
    /\ accepted' = (reply = "ok")
    /\ UNCHANGED <<builderVars, coreVars, componentVars, options, doOpts, proposal, peerResponses, envelope,
                   ctx, calls, sub, ledger>>

-----------------------------------------------------------------------------
(* TxSubscription *)

\* NewTxSubscription: result is a channel of capacity 1
NewTxSubscription(txID) == [state |-> "attached", txId |-> txID, result |-> <<>>]

\* txflags.ValidationFlags.IsValid
IsValid(flags, i) == flags[i] = TxValidationCode_VALID

\* The error Handler makes of a flag that is not VALID: it names the code
TxInvalid(code) == Error("TxInvalid", code, 0)

\* The first position of block.data holding txId, 0 when there is none
RECURSIVE Position(_, _, _)
Position(data, txId, i) ==
    IF i > Len(data) THEN 0
    ELSE IF data[i] = txId THEN i
    ELSE Position(data, txId, i + 1)

\* A block entry that is no envelope, or whose payload or channel header
\* does not unmarshal
Malformed == <<"malformed">>

\* The first position of block.data at which Handler's loop returns: an
\* entry that fails to unmarshal (lines 70-86) or the transaction txId
\* (line 88); 0 when the loop runs to its end
RECURSIVE FirstReturn(_, _, _)
FirstReturn(data, txId, i) ==
    IF i > Len(data) THEN 0
    ELSE IF data[i] = Malformed \/ data[i] = txId THEN i
    ELSE FirstReturn(data, txId, i + 1)

HandlerFlagOfFirst(t, block) ==
    LET i == FirstReturn(block.data, t.txId, 1)
    IN IF i = 0 THEN <<>>
       ELSE IF block.data[i] = Malformed
       THEN <<[code |-> 0, err |-> Error("unmarshal", 0, 0)]>>
       ELSE <<[code |-> block.flags[1],
               err |-> IF IsValid(block.flags, 1) THEN Nil
                       ELSE TxInvalid(block.flags[1])]>>

\* TxSubscription.Handler, lines 65-101: what it sends on ts.result for a
\* block: nothing when the loop runs to its end; code 0 and the error for
\* an entry that fails to unmarshal; the flag at the transaction's
\* position for the transaction ts.txId
Handler(t, block) ==
    LET i == FirstReturn(block.data, t.txId, 1)
    IN IF i = 0 THEN <<>>
       ELSE IF block.data[i] = Malformed
       THEN <<[code |-> 0, err |-> Error("unmarshal", 0, 0)]>>
       ELSE <<[code |-> block.flags[i],
               err |-> IF IsValid(block.flags, i) THEN Nil
                       ELSE TxInvalid(block.flags[i])]>>

\* Blocks the channel can produce once the envelope is ordered: the
\* transaction alone, after another transaction, or not in the block
BlocksFor(txID) ==
    { [data |-> <<txID>>, flags |-> <<c>>] : c \in Codes }
    \cup { [data |-> <<OtherTxID, txID>>, flags |-> <<o, c>>] : o \in Codes, c \in Codes }
    \cup { [data |-> <<OtherTxID>>, flags |-> <<c>>] : c \in Codes }

Committed == ledger.code # -1

\* The deliver stream produces a block; the hub hands it to the
\* subscription if one is attached and still waiting
DeliverBlock(block) ==
    /\ accepted
    /\ ledger.n < MaxBlocks
    /\ block \in BlocksFor(proposal.TxID)
    /\ LET i == Position(block.data, proposal.TxID, 1)
       IN /\ i # 0 => ~Committed
          /\ ledger' = [n |-> ledger.n + 1,
                        code |-> IF i # 0 THEN block.flags[i] ELSE ledger.code]
    /\ sub' = IF sub.state = "attached" /\ sub.result = <<>>
              THEN [sub EXCEPT !.result = Handler(sub, block)]
              ELSE sub
    /\ UNCHANGED <<builderVars, coreVars, componentVars, pc, options, doOpts, proposal, peerResponses,
                   envelope, ret, ctx, calls, accepted>>

-----------------------------------------------------------------------------
(* TxWaiter.Wait *)

\* Wait subscribes to txID on the channel's block stream; the
\* subscription can fail, and fails under a cancelled scope
WaitSubscribe(ok) ==
    /\ pc = "wait"
    /\ ctx.cancelled => ~ok
    /\ IF ok
       THEN /\ sub' = NewTxSubscription(proposal.TxID)
            /\ pc' = "waiting"
            /\ ret' = ret
       ELSE /\ sub' = sub
            /\ pc' = "done"
            /\ ret' = Returned(NilResponse, proposal.TxID,
                               IF ctx.cancelled THEN Error("Cancelled", 0, 0)
                               ELSE Error("Subscribe", 0, 0))
    /\ UNCHANGED <<builderVars, coreVars, componentVars, options, doOpts, proposal, peerResponses, envelope,
                   ctx, calls, accepted, ledger>>

DoWaitedKeepsResponse(waitErr) ==
    Returned(Response(peerResponses[1]), proposal.TxID, waitErr)

\* Do, lines 235-239: what Do returns once Wait returned waitErr
DoWaited(waitErr) ==
    IF waitErr # Nil
    THEN Returned(NilResponse, proposal.TxID, waitErr)
    ELSE Returned(Response(peerResponses[1]), proposal.TxID, Nil)

\* TxSubscription.Result reads a result; Wait closes the subscription and
\* returns the result's error
WaitResult ==
    /\ pc = "waiting"
    /\ sub.result # <<>>
    /\ ret' = DoWaited(Head(sub.result).err)
    /\ sub' = [sub EXCEPT !.state = "closed", !.result = <<>>]
    /\ pc' = "done"
    /\ UNCHANGED <<builderVars, coreVars, componentVars, options, doOpts, proposal, peerResponses, envelope,
                   ctx, calls, accepted, ledger>>

\* TxSubscription.Result reads an error of the subscription: the stream
\* failed, or the scope was cancelled
WaitAbort(kind) ==
    /\ pc = "waiting"
    /\ kind = "Cancelled" => ctx.cancelled
    /\ ret' = DoWaited(Error(kind, 0, 0))
    /\ sub' = [sub EXCEPT !.state = "closed"]
    /\ pc' = "done"
    /\ UNCHANGED <<builderVars, coreVars, componentVars, options, doOpts, proposal, peerResponses, envelope,
                   ctx, calls, accepted, ledger>>

-----------------------------------------------------------------------------
(* TxSubscription under the dispatcher of a block stream *)

submitVars == <<builderVars, coreVars, doVars>>

\* NewTxSubscription, line 15: the capacity of the result channel
ResultCap == 1

\* The txID the subscription of SpecSubs is for
SubTxID == TxID(1, CoreIdentity)

\* NewTxSubscription and Serve: errc is the state of the ErrorCloser's
\* error channel ("open", "closed", or "failed": an error is waiting in it)
NewServedSubscription(txID) ==
    [txId |-> txID, result |-> <<>>, closed |-> FALSE, errc |-> "open"]

NoHub == [seen |-> <<>>, sending |-> <<>>, others |-> 0, resolved |-> <<>>]

NoResultCall == [pc |-> "idle", code |-> 0, err |-> Nil, via |-> ""]

\* The blocks the stream of SpecSubs can produce: the transaction alone,
\* after another transaction, twice, not at all, and with an entry that
\* does not unmarshal before or after it
SubsBlocks ==
    { [data |-> <<SubTxID>>, flags |-> <<c>>] : c \in Codes }
    \cup { [data |-> <<OtherTxID, SubTxID>>, flags |-> <<o, c>>] : o \in Codes, c \in Codes }
    \cup { [data |-> <<OtherTxID>>, flags |-> <<TxValidationCode_VALID>>],
           [data |-> <<SubTxID, SubTxID>>,
            flags |-> <<TxValidationCode_MVCC_READ_CONFLICT, TxValidationCode_VALID>>],
           [data |-> <<Malformed>>, flags |-> <<TxValidationCode_VALID>>],
           [data |-> <<Malformed, SubTxID>>,
            flags |-> <<TxValidationCode_MVCC_READ_CONFLICT, TxValidationCode_VALID>>],
           [data |-> <<SubTxID, Malformed>>,
            flags |-> <<TxValidationCode_MVCC_READ_CONFLICT, TxValidationCode_VALID>>] }

\* A send on ts.result would block: the channel holds ResultCap results
ChanFull(t) == Len(t.result) >= ResultCap

\* Handler, lines 61-64: a nil block closes ts.result
HandlerNil(t) == [t EXCEPT !.closed = TRUE]

\* The dispatcher hands the next block of the stream to Handler and then
\* to the subscriber registered after the subscription. Handler's send on
\* ts.result (lines 72, 78, 84, 91, 95) completes at once when the channel
\* has room; when it is full Handler stays in the send, and the dispatcher
\* with it.
Dispatch(block) ==
    /\ Len(hub.seen) < MaxBlocks
    /\ ~ts.closed
    /\ hub.sending = <<>>
    /\ LET out == Handler(ts, block)
           blocks == out # <<>> /\ ChanFull(ts)
       IN /\ ts' = IF out # <<>> /\ ~blocks THEN [ts EXCEPT !.result = @ \o out] ELSE ts
          /\ hub' = [seen |-> Append(hub.seen, block),
                     sending |-> IF blocks THEN out ELSE <<>>,
                     others |-> IF blocks THEN hub.others ELSE hub.others + 1,
                     resolved |-> IF hub.resolved = <<>> THEN out ELSE hub.resolved]
    /\ UNCHANGED <<res, submitVars, grpcVars, clientVars>>

\* Handler's send completes once ts.result has room again; the dispatcher
\* goes on to the next subscriber
SendCompletes ==
    /\ hub.sending # <<>>
    /\ ~ChanFull(ts)
    /\ ts' = [ts EXCEPT !.result = @ \o hub.sending]
    /\ hub' = [hub EXCEPT !.sending = <<>>, !.others = @ + 1]
    /\ UNCHANGED <<res, submitVars, grpcVars, clientVars>>

\* The stream ends: the dispatcher hands a nil block to Handler
StreamCloses ==
    /\ ~ts.closed
    /\ hub.sending = <<>>
    /\ ts' = HandlerNil(ts)
    /\ UNCHANGED <<hub, res, submitVars, grpcVars, clientVars>>

\* The subscription's ErrorCloser closes its error channel or puts an
\* error into it
ErrorCloserEvent(e) ==
    /\ ts.errc = "open"
    /\ ts' = [ts EXCEPT !.errc = e]
    /\ UNCHANGED <<hub, res, submitVars, grpcVars, clientVars>>

ErrCodeIsClosed == Error("code is closed", 0, 0)

ErrErrIsClosed == Error("err is closed", 0, 0)

\* A receive from ts.result can proceed: a result is buffered or the
\* channel is closed
ResultReady(t) == t.result # <<>> \/ t.closed

\* A receive from ts.Err() can proceed
ErrReady(t) == t.errc # "open"

ResultErrClosedFirst(t, case) ==
    IF case = "result"
    THEN IF t.result # <<>>
         THEN [code |-> Head(t.result).code, err |-> Head(t.result).err, took |-> TRUE]
         ELSE [code |-> -1, err |-> ErrCodeIsClosed, took |-> FALSE]
    ELSE IF t.errc = "closed" THEN [code |-> -1, err |-> ErrErrIsClosed, took |-> FALSE]
    ELSE [code |-> -1, err |-> Error("Subscription", 0, 0), took |-> FALSE]

ResultClosedIsValid(t, case) ==
    IF t.result # <<>>
    THEN [code |-> Head(t.result).code, err |-> Head(t.result).err, took |-> TRUE]
    ELSE [code |-> TxValidationCode_VALID, err |-> Nil, took |-> FALSE]

\* TxSubscription.Result, lines 36-58: what it returns when the select
\* takes the case of ts.result ("result") or of ts.Err() ("err");
\* took tells whether a result was taken out of ts.result
Result(t, case) ==
    LET received ==
            IF t.result # <<>>
            THEN [code |-> Head(t.result).code, err |-> Head(t.result).err, took |-> TRUE]
            ELSE [code |-> -1, err |-> ErrCodeIsClosed, took |-> FALSE]
    IN IF case = "result" THEN received
       ELSE IF t.errc = "closed"
       THEN IF ResultReady(t) THEN received
            ELSE [code |-> -1, err |-> ErrErrIsClosed, took |-> FALSE]
       ELSE [code |-> -1, err |-> Error("Subscription", 0, 0), took |-> FALSE]

\* A caller calls Result and waits in its select
ResultCall ==
    /\ res.pc = "idle"
    /\ res' = [res EXCEPT !.pc = "selecting"]
    /\ UNCHANGED <<ts, hub, submitVars, grpcVars, clientVars>>

\* The select of Result takes a case that can proceed, and Result returns
ResultReturn(case) ==
    /\ res.pc = "selecting"
    /\ case = "result" => ResultReady(ts)
    /\ case = "err" => ErrReady(ts)
    /\ LET r == Result(ts, case)
       IN /\ res' = [pc |-> "returned", code |-> r.code, err |-> r.err, via |-> case]
          /\ ts' = [ts EXCEPT !.result = IF r.took THEN Tail(@) ELSE @,
                              !.errc = IF case = "err" /\ @ = "failed" THEN "open" ELSE @]
    /\ UNCHANGED <<hub, submitVars, grpcVars, clientVars>>

-----------------------------------------------------------------------------
(* grpc: OptionsFromConfig and ConnectionFromConfigs *)

\* Durations are whole seconds. grpc.go, lines 30-33
DefaultGRPCRetryConfigValue == [Max |-> 10, Timeout |-> 10]

\* time.Duration.String: "0s" for zero, never the empty string
DurationString(d) == IF d = 0 THEN <<"0", "s">> ELSE <<d, "s">>

\* config.TlsConfig: disabled, or enabled with a CA certificate file
Insecure == [Enabled |-> FALSE, CACertPath |-> ""]

TLSWith(ca) == [Enabled |-> TRUE, CACertPath |-> ca]

\* The CA certificate files that can be read
CAFiles == {"caA.pem", "caB.pem"}

NoRetry == [Max |-> 0, Timeout |-> 0]

\* config.ConnectionConfig; Retry = NoRetry stands for c.GRPC.Retry == nil
ConnectionConfig(host, tls, timeout, retry) ==
    [Host |-> host, Tls |-> tls, Timeout |-> timeout, Retry |-> retry]

\* The endpoint lists the callers pass to ConnectionFromConfigs
ConfLists ==
    { <<>>,
      <<ConnectionConfig("o1:7050", Insecure, 0, NoRetry)>>,
      <<ConnectionConfig("o1:7050", TLSWith("caA.pem"), 5, NoRetry),
        ConnectionConfig("o2:7050", Insecure, 0, NoRetry)>>,
      <<ConnectionConfig("o2:7050", TLSWith("caB.pem"), 0, [Max |-> 3, Timeout |-> 1]),
        ConnectionConfig("o1:7050", TLSWith("caA.pem"), 5, NoRetry)>>,
      <<ConnectionConfig("o1", Insecure, 0, NoRetry)>>,
      <<ConnectionConfig("o1:7050", TLSWith("missing.pem"), 0, NoRetry)>> }

Callers == {1, 2}

NoOpts == [creds |-> Insecure, max |-> 0, backoff |-> 0]

NoConn == [addr |-> <<>>, creds |-> <<>>]

NoConnCall == [pc |-> "idle", conf |-> <<>>, retryConfig |-> "nil", opts |-> NoOpts,
               conn |-> NoConn, err |-> Nil]

\* OptionsFromConfig, lines 67-110: the transport credentials [creds, err]
TransportCredentials(c) ==
    IF c.Tls.Enabled
    THEN IF c.Tls.CACertPath # "" /\ c.Tls.CACertPath \notin CAFiles
         THEN [creds |-> Insecure, err |-> Error("failed to read CA certificate", 0, 0)]
         ELSE [creds |-> c.Tls, err |-> Nil]
    ELSE [creds |-> Insecure, err |-> Nil]

\* OptionsFromConfig, lines 122-130: retryConfig points to the endpoint's
\* own retry config ("own") or to DefaultGRPCRetryConfig ("default");
\* write tells whether the endpoint's timeout is stored through it
RetryConfig(c) ==
    IF c.Retry # NoRetry THEN [ref |-> "own", write |-> FALSE]
    ELSE IF DurationString(c.Timeout) # <<>> THEN [ref |-> "default", write |-> TRUE]
    ELSE [ref |-> "default", write |-> FALSE]

\* net.SplitHostPort fails on a host without a port
HasPort(host) == host \in {"o1:7050", "o2:7050"}

\* ConnectionFromConfigs is called: lines 168-172 and OptionsFromConfig up
\* to the choice of retryConfig (line 130)
ConnectionFromConfigs(p, conf) ==
    /\ conns[p].pc = "idle"
    /\ IF Len(conf) = 0
       THEN /\ conns' = [conns EXCEPT ![p] = [@ EXCEPT !.pc = "done", !.conf = conf,
                             !.err = Error("no GRPC options provided", 0, 0)]]
            /\ UNCHANGED DefaultGRPCRetryConfig
       ELSE LET tc == TransportCredentials(conf[1])
                rc == RetryConfig(conf[1])
            IN IF tc.err # Nil
               THEN /\ conns' = [conns EXCEPT ![p] = [@ EXCEPT !.pc = "done", !.conf = conf,
                                     !.err = Wrap("failed to get GRPC options", tc.err)]]
                    /\ UNCHANGED DefaultGRPCRetryConfig
               ELSE /\ conns' = [conns EXCEPT ![p] = [@ EXCEPT !.pc = "options", !.conf = conf,
                                     !.retryConfig = rc.ref, !.opts.creds = tc.creds]]
                    /\ DefaultGRPCRetryConfig' =
                           IF rc.write
                           THEN [DefaultGRPCRetryConfig EXCEPT !.Timeout = conf[1].Timeout]
                           ELSE DefaultGRPCRetryConfig
    /\ UNCHANGED <<submitVars, subsVars, clientVars>>

\* OptionsFromConfig, lines 132-158, reads Max and Timeout through
\* retryConfig; ConnectionFromConfigs, lines 177-200, splits the first
\* host and starts the dial with the addresses of all endpoints
OptionsFromConfig(p) ==
    /\ conns[p].pc = "options"
    /\ LET c == conns[p]
           rc == IF c.retryConfig = "own" THEN c.conf[1].Retry ELSE DefaultGRPCRetryConfig
       IN conns' = [conns EXCEPT ![p] =
              IF ~HasPort(c.conf[1].Host)
              THEN [@ EXCEPT !.pc = "done", !.opts.max = rc.Max, !.opts.backoff = rc.Timeout,
                             !.err = Error("cant fetch domain name", 0, 0)]
              ELSE [@ EXCEPT !.pc = "dialing", !.opts.max = rc.Max,
                             !.opts.backoff = rc.Timeout]]
    /\ UNCHANGED <<DefaultGRPCRetryConfig, submitVars, subsVars, clientVars>>

\* grpc.DialContext returns, lines 200-205: one connection over the
\* addresses of all endpoints, every address dialled with opts.Dial
DialContext(p, ok) ==
    /\ conns[p].pc = "dialing"
    /\ LET c == conns[p]
       IN conns' = [conns EXCEPT ![p] =
              IF ok
              THEN [@ EXCEPT !.pc = "done",
                             !.conn = [addr |-> [i \in 1..Len(c.conf) |-> c.conf[i].Host],
                                       creds |-> [i \in 1..Len(c.conf) |-> c.opts.creds]]]
              ELSE [@ EXCEPT !.pc = "done", !.err = Wrap("grpc dial", Error("DialFailed", 0, 0))]]
    /\ UNCHANGED <<DefaultGRPCRetryConfig, submitVars, subsVars, clientVars>>

-----------------------------------------------------------------------------
(* config.MSP: the MSP loader *)

ErrMSPIDEmpty == Error("MSPIDEmpty", 0, 0)

ErrMSPPathEmpty == Error("MSPPathEmpty", 0, 0)

ErrSignerNotFound == Error("SignerNotFound", 0, 0)

\* A nil api.Identity
NilIdentity == [msp |-> ""]

NoMSP == [id |-> "", signer |-> FALSE]

\* config.MSP values: the id and the path can each be missing
MSPConfigs == [ID : {"", "Org1MSP"}, Path : {"", "/msp"}]

\* What the directory at the path holds: an MSP with a signer, an MSP
\* without signcert or matching key, or nothing that loads
MSPDirs == {"signer", "nosigner", "error"}

\* identity.MSPFromPath: [msp, err]
MSPFromPath(id, path, dir) ==
    IF dir = "error" THEN [msp |-> NoMSP, err |-> Error("MSPFromPath", 0, 0)]
    ELSE [msp |-> [id |-> id, signer |-> dir = "signer"], err |-> Nil]

MSPPathFirst(m, dir) ==
    IF m.Path = "" THEN [msp |-> NoMSP, err |-> ErrMSPPathEmpty]
    ELSE IF m.ID = "" THEN [msp |-> NoMSP, err |-> ErrMSPIDEmpty]
    ELSE MSPFromPath(m.ID, m.Path, dir)

\* MSP.MSP, lines 38-48: [msp, err]
MSP(m, dir) ==
    IF m.ID = "" THEN [msp |-> NoMSP, err |-> ErrMSPIDEmpty]
    ELSE IF m.Path = "" THEN [msp |-> NoMSP, err |-> ErrMSPPathEmpty]
    ELSE MSPFromPath(m.ID, m.Path, dir)

\* MSP.Signer, lines 24-36: [identity, err]
Signer(m, dir) ==
    LET mspConfig == MSP(m, dir)
    IN IF mspConfig.err # Nil THEN [identity |-> NilIdentity, err |-> mspConfig.err]
       ELSE IF ~mspConfig.msp.signer
       THEN [identity |-> NilIdentity, err |-> ErrSignerNotFound]
       ELSE [identity |-> [msp |-> mspConfig.msp.id], err |-> Nil]

NoSignerCall == [pc |-> "idle", m |-> [ID |-> "", Path |-> ""], dir |-> "error",
                 identity |-> NilIdentity, err |-> Nil]

\* The application loads its identity: config.MSP{ID, Path}.Signer()
LoadSigner(m, dir) ==
    /\ signer.pc = "idle"
    /\ LET r == Signer(m, dir)
       IN signer' = [pc |-> "done", m |-> m, dir |-> dir,
                     identity |-> r.identity, err |-> r.err]
    /\ UNCHANGED <<newc, core, pools, chcalls, submitVars, subsVars, grpcVars>>

-----------------------------------------------------------------------------
(* client.New and its options *)

\* The crypto suites of the registry; ecdsa.DefaultConfig names DefaultSuite
Suites == {"ecdsa", "gost"}

DefaultSuite == "ecdsa"

\* The peer pools: two the application made, and the one New makes
PoolA == "poolA"

PoolB == "poolB"

OwnPool == "own"

PoolIDs == {PoolA, PoolB, OwnPool}

\* config.Config; set = FALSE stands for core.config == nil
NoConfig ==
    [set |-> FALSE, MSP |-> <<>>, Discovery |-> [Type |-> "", Connection |-> "nil"],
     Orderers |-> <<>>]

Config(msps, type, connection, orderers) ==
    [set |-> TRUE, MSP |-> msps, Discovery |-> [Type |-> type, Connection |-> connection],
     Orderers |-> orderers]

CfgLocal ==
    Config(<<[Name |-> "Org1MSP", Endorsers |-> <<"peer0.org1:7051">>]>>, "local", "nil",
           <<ConnectionConfig("o1:7050", Insecure, 5, NoRetry)>>)

CfgGossip == Config(<<>>, "gossip", "peer0.org1:7051", <<>>)

CfgGossipNoConnection == Config(<<>>, "gossip", "nil", <<>>)

CfgUnknownDiscovery ==
    Config(<<[Name |-> "Org1MSP", Endorsers |-> <<"peer0.org1:7051">>]>>, "static", "nil", <<>>)

\* What the gossip provider's LocalPeers reports: <<mspID, address>>
LocalPeers == << <<"Org1MSP", "peer1.org1:7051">> >>

\* The core as New makes it at lines 138-142; channels maps a channel
\* name to the instance cached for it, channelMx is 0 or the caller
\* holding the mutex, created counts the NewChannel calls
NewCore(identity, cs) ==
    [ctx |-> "nil", logger |-> "nil", config |-> NoConfig,
     identity |-> [msp |-> identity.msp, suite |-> cs],
     peerPool |-> "nil", orderer |-> "nil", discoveryProvider |-> "nil",
     channels |-> [n \in {} |-> 0], channelMx |-> 0, created |-> 0,
     cs |-> cs, fabricV2 |-> FALSE]

\* No core: what New returns with an error
NoCore == NewCore(NilIdentity, "")

\* The configs the application passes by value (WithConfigRaw) or that
\* a YAML file holds
ConfigNamed(name) ==
    CASE name = "local" -> CfgLocal
      [] name = "gossip" -> CfgGossip
      [] name = "gossip without connection" -> CfgGossipNoConnection
      [] name = "unknown discovery" -> CfgUnknownDiscovery

\* A CoreOpt: the option's constructor k and its argument v (for a
\* config its name above, for WithPeers the MSP id with the peers)
CoreOpt(k, v) == [k |-> k, v |-> v, peers |-> <<>>]

WithPeers(mspID, peers) == [k |-> "WithPeers", v |-> mspID, peers |-> peers]

Peers1 == <<"peer0.org1:7051", "peer1.org1:7051">>

\* The external calls of New and its options that can fail, one per run
Faults == {"none", "suite", "peer", "add", "discovery", "serialize", "localpeers",
           "conn", "orderer"}

\* NewPeer for each pair and PeerPool.Add of it to pool, as WithPeers and
\* New do it: [pools, err, crashed]. NewPeer is handed ctx and logger;
\* handed a nil one it crashes unless it is tolerant of nil. Add on a nil
\* pool is a nil dereference.
RECURSIVE AddPeers(_, _, _, _, _, _)
AddPeers(pairs, pool, ready, pls, fault, tolerant) ==
    IF pairs = <<>> THEN [pools |-> pls, err |-> Nil, crashed |-> FALSE]
    ELSE IF ~ready /\ ~tolerant THEN [pools |-> pls, err |-> Nil, crashed |-> TRUE]
    ELSE IF fault = "peer"
    THEN [pools |-> pls, err |-> Error("NewPeer", 0, 0), crashed |-> FALSE]
    ELSE IF pool = "nil" THEN [pools |-> pls, err |-> Nil, crashed |-> TRUE]
    ELSE IF fault = "add"
    THEN [pools |-> pls, err |-> Error("PoolAdd", 0, 0), crashed |-> FALSE]
    ELSE AddPeers(Tail(pairs), pool, ready,
                  [pls EXCEPT ![pool] = @ \cup {Head(pairs)}], fault, tolerant)

\* One option applied to the core c: [core, pools, err, crashed]
ApplyCoreOpt(opt, c, pls, fault, tolerant) ==
    LET ok(c2) == [core |-> c2, pools |-> pls, err |-> Nil, crashed |-> FALSE]
        fails(c2, e) == [core |-> c2, pools |-> pls, err |-> e, crashed |-> FALSE]
    IN CASE opt.k = "WithContext"  -> ok([c EXCEPT !.ctx = "custom"])
         [] opt.k = "WithLogger"   -> ok([c EXCEPT !.logger = "custom"])
         [] opt.k = "WithOrderer"  -> ok([c EXCEPT !.orderer = "custom"])
         [] opt.k = "WithPeerPool" -> ok([c EXCEPT !.peerPool = opt.v])
         [] opt.k = "WithFabricV2" -> ok([c EXCEPT !.fabricV2 = (opt.v = "true")])
         [] opt.k = "WithConfigRaw" -> ok([c EXCEPT !.config = ConfigNamed(opt.v)])
         [] opt.k = "WithConfigYaml" ->
                IF opt.v = "missing.yaml"
                THEN fails(c, Error("failed to read config file", 0, 0))
                ELSE IF opt.v = "bad.yaml"
                THEN fails([c EXCEPT !.config = Config(<<>>, "", "nil", <<>>)],
                           Error("failed to parse YAML", 0, 0))
                ELSE ok([c EXCEPT !.config = CfgLocal])
         [] opt.k = "WithCrypto" ->
                IF opt.v \in Suites THEN ok([c EXCEPT !.cs = opt.v])
                ELSE fails(c, Wrap("get crypto suite", Error("UnknownSuite", 0, 0)))
         [] opt.k = "WithPeers" ->
                LET pairs == [i \in 1..Len(opt.peers) |-> <<opt.v, opt.peers[i]>>]
                    r == AddPeers(pairs, c.peerPool, c.ctx # "nil" /\ c.logger # "nil",
                                  pls, fault, tolerant)
                IN [core |-> c, pools |-> r.pools, crashed |-> r.crashed,
                    err |-> IF r.err = Nil THEN Nil
                            ELSE IF r.err.kind = "NewPeer" THEN Wrap("create peer", r.err)
                            ELSE Wrap("add peer to pool", r.err)]

ErrEmptyConfig == Error("EmptyConfig", 0, 0)

ErrUnknownDiscoveryType == Error("UnknownDiscoveryType", 0, 0)

\* The <<mspID, endorser>> pairs of a config, in the config's order
RECURSIVE ConfigPeers(_)
ConfigPeers(msps) ==
    IF msps = <<>> THEN <<>>
    ELSE [i \in 1..Len(Head(msps).Endorsers) |-> <<Head(msps).Name, Head(msps).Endorsers[i]>>]
         \o ConfigPeers(Tail(msps))

\* New, lines 150-178: default ctx and logger, and the peer pool from the
\* config when no pool was given: [core, pools, err]
NewPeerPool(c0, pls, fault) ==
    LET c == [c0 EXCEPT !.ctx = IF @ = "nil" THEN "background" ELSE @,
                        !.logger = IF @ = "nil" THEN "default" ELSE @]
        added == AddPeers(ConfigPeers(c.config.MSP), OwnPool, TRUE,
                          [pls EXCEPT ![OwnPool] = {}], fault, TRUE)
    IN IF c.peerPool # "nil" THEN [core |-> c, pools |-> pls, err |-> Nil]
       ELSE IF ~c.config.set THEN [core |-> c, pools |-> pls, err |-> ErrEmptyConfig]
       ELSE [core |-> [c EXCEPT !.peerPool = OwnPool], pools |-> added.pools,
             err |-> IF added.err = Nil THEN Nil
                     ELSE IF added.err.kind = "NewPeer"
                     THEN Wrap("initialize endorsers for MSP", added.err)
                     ELSE Wrap("add peer to pool", added.err)]

\* New, lines 180-251: the discovery provider from the config when none
\* was given: [core, pools, err]
NewDiscoveryProvider(c, pls, fault) ==
    LET fails(e) == [core |-> c, pools |-> pls, err |-> e]
        added == AddPeers(LocalPeers, c.peerPool, TRUE, pls, fault, TRUE)
    IN IF ~(c.discoveryProvider = "nil" /\ c.config.set)
       THEN [core |-> c, pools |-> pls, err |-> Nil]
       ELSE IF c.config.Discovery.Type = "local"
       THEN IF fault = "discovery"
            THEN fails(Wrap("initialize discovery provider", Error("Discovery", 0, 0)))
            ELSE [core |-> [c EXCEPT !.discoveryProvider = "local"], pools |-> pls,
                  err |-> Nil]
       ELSE IF c.config.Discovery.Type = "gossip"
       THEN IF c.config.Discovery.Connection = "nil"
            THEN fails(Error("discovery connection config wasn't provided", 0, 0))
            ELSE IF fault = "serialize"
            THEN fails(Wrap("serialize current identity", Error("Serialize", 0, 0)))
            ELSE IF fault = "discovery"
            THEN fails(Wrap("initialize discovery provider", Error("Discovery", 0, 0)))
            ELSE IF fault = "localpeers"
            THEN fails(Wrap("fetch local peers", Error("LocalPeers", 0, 0)))
            ELSE [core |-> [c EXCEPT !.discoveryProvider = "gossip"],
                  pools |-> added.pools,
                  err |-> IF added.err = Nil THEN Nil
                          ELSE IF added.err.kind = "NewPeer"
                          THEN Wrap("initialize endorsers for MSP", added.err)
                          ELSE Wrap("add peer to pool", added.err)]
       ELSE fails(ErrUnknownDiscoveryType)

\* DefaultGRPCRetryConfig after a ConnectionFromConfigs(conf) that ran to
\* its dial
RetryAfter(conf, g) ==
    IF Len(conf) > 0 /\ TransportCredentials(conf[1]).err = Nil /\ RetryConfig(conf[1]).write
    THEN [g EXCEPT !.Timeout = conf[1].Timeout]
    ELSE g

\* New, lines 253-265: the orderer from the config when none was given:
\* [core, err, retry]
NewOrderer(c, g, fault) ==
    IF ~(c.orderer = "nil" /\ c.config.set /\ Len(c.config.Orderers) > 0)
    THEN [core |-> c, err |-> Nil, retry |-> g]
    ELSE IF fault = "conn"
    THEN [core |-> c, retry |-> RetryAfter(c.config.Orderers, g),
          err |-> Wrap("initialize orderer connection", Error("DialFailed", 0, 0))]
    ELSE IF fault = "orderer"
    THEN [core |-> c, retry |-> RetryAfter(c.config.Orderers, g),
          err |-> Wrap("initialize orderer", Error("NewOrderer", 0, 0))]
    ELSE [core |-> [c EXCEPT !.orderer = "config"], err |-> Nil,
          retry |-> RetryAfter(c.config.Orderers, g)]

\* The option lists the application passes to New
CoreOptLists ==
    { <<>>,
      <<CoreOpt("WithPeerPool", PoolA)>>,
      <<CoreOpt("WithConfigRaw", "local")>>,
      <<CoreOpt("WithConfigRaw", "gossip"), CoreOpt("WithPeerPool", PoolA)>>,
      <<CoreOpt("WithConfigRaw", "gossip without connection")>>,
      <<CoreOpt("WithConfigRaw", "unknown discovery")>>,
      <<CoreOpt("WithConfigYaml", "missing.yaml"), CoreOpt("WithFabricV2", "true")>>,
      <<CoreOpt("WithConfigYaml", "bad.yaml"), CoreOpt("WithOrderer", "custom")>>,
      <<CoreOpt("WithConfigYaml", "local.yaml"), CoreOpt("WithOrderer", "custom")>>,
      <<CoreOpt("WithContext", "custom"), CoreOpt("WithLogger", "custom"),
        CoreOpt("WithPeerPool", PoolA), WithPeers("Org1MSP", Peers1)>>,
      <<CoreOpt("WithPeerPool", PoolA), WithPeers("Org1MSP", Peers1)>>,
      <<WithPeers("Org1MSP", Peers1), CoreOpt("WithPeerPool", PoolA)>>,
      <<WithPeers("Org1MSP", Peers1)>>,
      <<CoreOpt("WithContext", "custom"), CoreOpt("WithLogger", "custom"),
        WithPeers("Org1MSP", Peers1), CoreOpt("WithConfigRaw", "unknown discovery")>>,
      <<CoreOpt("WithContext", "custom"), CoreOpt("WithLogger", "custom"),
        CoreOpt("WithPeerPool", PoolA), WithPeers("Org1MSP", Peers1),
        CoreOpt("WithPeerPool", PoolB)>>,
      <<CoreOpt("WithCrypto", "gost"), CoreOpt("WithPeerPool", PoolA)>>,
      <<CoreOpt("WithCrypto", "sm2"), CoreOpt("WithPeerPool", PoolA)>> }

NoNewCall == [pc |-> "idle", opts |-> <<>>, applied |-> 0, err |-> Nil,
              fault |-> "none", tolerant |-> FALSE]

\* New returns an error and no core
NewFails(e) ==
    /\ newc' = [newc EXCEPT !.pc = "done", !.err = e, !.fault = "none", !.tolerant = FALSE]
    /\ core' = NoCore

\* The application calls client.New with the identity it loaded and the
\* options opts: lines 125-142. fault names the external call that fails
\* in this call, tolerant tells whether NewPeer tolerates a nil ctx or
\* logger; both are forgotten when the call ends.
NewCall(opts, fault, tolerant) ==
    /\ signer.pc = "done"
    /\ newc.pc = "idle"
    /\ IF signer.identity = NilIdentity
       THEN /\ newc' = [pc |-> "done", opts |-> opts, applied |-> 0, fault |-> "none",
                        tolerant |-> FALSE,
                        err |-> Error("identity wasn't provided", 0, 0)]
            /\ core' = NoCore
       ELSE IF fault = "suite"
       THEN /\ newc' = [pc |-> "done", opts |-> opts, applied |-> 0, fault |-> "none",
                        tolerant |-> FALSE,
                        err |-> Wrap("initialize crypto suite", Error("UnknownSuite", 0, 0))]
            /\ core' = NoCore
       ELSE /\ newc' = [pc |-> "options", opts |-> opts, applied |-> 0, fault |-> fault,
                        tolerant |-> tolerant, err |-> Nil]
            /\ core' = NewCore(signer.identity, DefaultSuite)
    /\ UNCHANGED <<signer, pools, chcalls, submitVars, subsVars, grpcVars>>

\* New, lines 144-148: the next option is applied; an error ends New, a
\* nil dereference ends the goroutine
NewOption ==
    /\ newc.pc = "options"
    /\ newc.applied < Len(newc.opts)
    /\ LET r == ApplyCoreOpt(newc.opts[newc.applied + 1], core, pools, newc.fault,
                             newc.tolerant)
       IN /\ pools' = r.pools
          /\ IF r.crashed
             THEN /\ newc' = [newc EXCEPT !.pc = "crashed", !.fault = "none",
                                          !.tolerant = FALSE]
                  /\ core' = NoCore
             ELSE IF r.err # Nil
             THEN NewFails(Wrap("apply option", r.err))
             ELSE newc' = [newc EXCEPT !.applied = @ + 1] /\ core' = r.core
    /\ UNCHANGED <<signer, chcalls, submitVars, subsVars, grpcVars>>

\* New, lines 150-178, after the last option
NewPool ==
    /\ newc.pc = "options"
    /\ newc.applied = Len(newc.opts)
    /\ LET r == NewPeerPool(core, pools, newc.fault)
       IN /\ pools' = r.pools
          /\ IF r.err # Nil THEN NewFails(r.err)
             ELSE newc' = [newc EXCEPT !.pc = "discovery"] /\ core' = r.core
    /\ UNCHANGED <<signer, chcalls, submitVars, subsVars, grpcVars>>

\* New, lines 180-251
NewDiscovery ==
    /\ newc.pc = "discovery"
    /\ LET r == NewDiscoveryProvider(core, pools, newc.fault)
       IN /\ pools' = r.pools
          /\ IF r.err # Nil THEN NewFails(r.err)
             ELSE newc' = [newc EXCEPT !.pc = "orderer"] /\ core' = r.core
    /\ UNCHANGED <<signer, chcalls, submitVars, subsVars, grpcVars>>

\* New, lines 253-272: the orderer, and New returns the core
NewReturn ==
    /\ newc.pc = "orderer"
    /\ LET r == NewOrderer(core, DefaultGRPCRetryConfig, newc.fault)
       IN /\ DefaultGRPCRetryConfig' = r.retry
          /\ IF r.err # Nil THEN NewFails(r.err)
             ELSE /\ newc' = [newc EXCEPT !.pc = "done", !.fault = "none",
                                          !.tolerant = FALSE]
                  /\ core' = r.core
    /\ UNCHANGED <<signer, pools, chcalls, conns, submitVars, subsVars>>

-----------------------------------------------------------------------------
(* core.Channel *)

MaxChannelCalls == 2     \* Channel calls of one caller

ChannelNames == {"ch1", "ch2"}

HostAddress(address, tls) == [Address |-> address, TLSSettings |-> tls]

\* What discoveryProvider.Channel returns: an error, or the channel's
\* orderers (api.HostEndpoint), each with its host addresses
Discoveries ==
    { [err |-> TRUE,  orderers |-> <<>>],
      [err |-> FALSE, orderers |-> <<>>],
      [err |-> FALSE, orderers |-> <<[HostAddresses |-> <<>>]>>],
      [err |-> FALSE,
       orderers |-> <<[HostAddresses |-> <<HostAddress("o1:7050", TLSWith("caA.pem"))>>],
                      [HostAddresses |-> <<HostAddress("o2:7050", Insecure)>>]>>] }

\* Channel, lines 81-94: one ConnectionConfig per host address
RECURSIVE GrpcConnCfgs(_)
GrpcConnCfgs(orderers) ==
    IF orderers = <<>> THEN <<>>
    ELSE [i \in 1..Len(Head(orderers).HostAddresses) |->
              ConnectionConfig(Head(orderers).HostAddresses[i].Address,
                               Head(orderers).HostAddresses[i].TLSSettings, 0, NoRetry)]
         \o GrpcConnCfgs(Tail(orderers))

NoInstance == [id |-> 0, ord |-> "nil"]

NoChannelCall == [pc |-> "idle", name |-> "", n |-> 0, cfgs |-> <<>>, ret |-> NoInstance]

\* Channel, lines 106-113: the default orderer when ord is nil, NewChannel,
\* the instance cached under the name and returned; the deferred Unlock
ChannelCreated(c, name, ord) ==
    LET ch == [id |-> c.created + 1, ord |-> IF ord = "nil" THEN c.orderer ELSE ord]
    IN [core |-> [c EXCEPT !.channels = (name :> ch) @@ @, !.created = @ + 1,
                           !.channelMx = 0],
        ch |-> ch]

\* A caller calls Channel(name): line 62, up to the Lock
ChannelCall(p, name) ==
    /\ newc.pc = "done" /\ newc.err = Nil
    /\ chcalls[p].pc = "idle"
    /\ chcalls[p].n < MaxChannelCalls
    /\ chcalls' = [chcalls EXCEPT ![p] = [pc |-> "lock", name |-> name, n |-> @.n + 1,
                                          cfgs |-> <<>>, ret |-> NoInstance]]
    /\ UNCHANGED <<signer, newc, core, pools, submitVars, subsVars, grpcVars>>

ChannelLockNoMutex(p) ==
    /\ chcalls[p].pc = "lock"
    /\ IF chcalls[p].name \in DOMAIN core.channels
       THEN /\ chcalls' = [chcalls EXCEPT ![p].pc = "idle",
                                          ![p].ret = core.channels[chcalls[p].name]]
            /\ core' = core
       ELSE IF core.discoveryProvider = "nil"
       THEN /\ chcalls' = [chcalls EXCEPT ![p].pc = "crashed"]
            /\ core' = core
       ELSE /\ chcalls' = [chcalls EXCEPT ![p].pc = "discovery"]
            /\ core' = core
    /\ UNCHANGED <<signer, newc, pools, submitVars, subsVars, grpcVars>>

\* Channel, lines 63-74: the caller gets the mutex; a cached instance is
\* returned (and the mutex released); else discovery is called with the
\* mutex held. A nil discoveryProvider is a nil dereference: the call
\* panics, the deferred Unlock releases the mutex.
ChannelLock(p) ==
    /\ chcalls[p].pc = "lock"
    /\ core.channelMx = 0
    /\ IF chcalls[p].name \in DOMAIN core.channels
       THEN /\ chcalls' = [chcalls EXCEPT ![p].pc = "idle",
                                          ![p].ret = core.channels[chcalls[p].name]]
            /\ core' = core
       ELSE IF core.discoveryProvider = "nil"
       THEN /\ chcalls' = [chcalls EXCEPT ![p].pc = "crashed"]
            /\ core' = core
       ELSE /\ chcalls' = [chcalls EXCEPT ![p].pc = "discovery"]
            /\ core' = [core EXCEPT !.channelMx = p]
    /\ UNCHANGED <<signer, newc, pools, submitVars, subsVars, grpcVars>>

\* Channel, lines 74-96: discovery returns. On an error or without
\* orderers the channel is made with the default orderer; else
\* ConnectionFromConfigs is called with the orderers' addresses.
ChannelDiscovered(p, d) ==
    /\ chcalls[p].pc = "discovery"
    /\ IF d.err \/ Len(d.orderers) = 0
       THEN LET made == ChannelCreated(core, chcalls[p].name, "nil")
            IN /\ core' = made.core
               /\ chcalls' = [chcalls EXCEPT ![p].pc = "idle", ![p].ret = made.ch]
       ELSE /\ chcalls' = [chcalls EXCEPT ![p].pc = "connect",
                                          ![p].cfgs = GrpcConnCfgs(d.orderers)]
            /\ core' = core
    /\ UNCHANGED <<signer, newc, pools, submitVars, subsVars, grpcVars>>

\* Channel, lines 96-113: ConnectionFromConfigs returns a connection (ok)
\* or an error and a nil connection; NewOrdererFromGRPC is called with
\* what it returned. Handed a nil connection NewOrdererFromGRPC returns an
\* orderer over it, an error, or panics.
ChannelConnected(p, ok, ordOut) ==
    /\ chcalls[p].pc = "connect"
    /\ chcalls[p].cfgs = <<>> => ~ok
    /\ ordOut = "crash" => ~ok
    /\ DefaultGRPCRetryConfig' = RetryAfter(chcalls[p].cfgs, DefaultGRPCRetryConfig)
    /\ IF ordOut = "crash"
       THEN /\ chcalls' = [chcalls EXCEPT ![p].pc = "crashed"]
            /\ core' = [core EXCEPT !.channelMx = 0]
       ELSE LET ord == IF ordOut = "err" THEN "nil"
                       ELSE IF ok THEN "discovered" ELSE "broken"
                made == ChannelCreated(core, chcalls[p].name, ord)
            IN /\ core' = made.core
               /\ chcalls' = [chcalls EXCEPT ![p].pc = "idle", ![p].ret = made.ch]
    /\ UNCHANGED <<signer, newc, pools, conns, submitVars, subsVars>>

\* The caller waits for an RPC or a dial to return
Suspended(p) ==
    \/ chcalls[p].pc = "discovery"
    \/ chcalls[p].pc = "connect" /\ chcalls[p].cfgs # <<>>

-----------------------------------------------------------------------------

\* The components as they are while another specification runs
SubmitIdle ==
    /\ args = <<>>
    /\ err = newErrArgMap
    /\ doOptions = <<>>
    /\ nCalls = 0
    /\ marshalFailed = FALSE
    /\ orderer = "nil"
    /\ endorsingMSPs = <<>>
    /\ pc = "build"
    /\ options = <<>>
    /\ doOpts = [Identity |-> "", EndorsingMspIDs |-> <<>>, TxWaiter |-> "nil"]
    /\ proposal = NoProposal
    /\ peerResponses = <<>>
    /\ envelope = NoEnvelope
    /\ ret = NoRet
    /\ ctx = [cancelled |-> FALSE, at |-> ""]
    /\ calls = [endorse |-> 0, broadcast |-> 0, waiterInitFailed |-> FALSE,
                mspFailed |-> FALSE]
    /\ accepted = FALSE
    /\ sub = NoSub
    /\ ledger = [n |-> 0, code |-> -1]

SubsIdle ==
    /\ ts = NewServedSubscription(NoTxID)
    /\ hub = NoHub
    /\ res = NoResultCall

GRPCIdle ==
    /\ DefaultGRPCRetryConfig = DefaultGRPCRetryConfigValue
    /\ conns = [p \in Callers |-> NoConnCall]

ClientIdle ==
    /\ signer = NoSignerCall
    /\ newc = NoNewCall
    /\ core = NoCore
    /\ pools = [id \in PoolIDs |-> {}]
    /\ chcalls = [p \in Callers |-> NoChannelCall]

Init ==
    /\ args = <<>>
    /\ err = newErrArgMap
    /\ doOptions = <<>>
    /\ nCalls = 0
    /\ marshalFailed = FALSE
    /\ orderer \in {"nil", "orderer"}
    /\ endorsingMSPs \in MSPLists
    /\ pc = "build"
    /\ options = <<>>
    /\ doOpts = [Identity |-> "", EndorsingMspIDs |-> <<>>, TxWaiter |-> "nil"]
    /\ proposal = NoProposal
    /\ peerResponses = <<>>
    /\ envelope = NoEnvelope
    /\ ret = NoRet
    /\ ctx = [cancelled |-> FALSE, at |-> ""]
    /\ calls = [endorse |-> 0, broadcast |-> 0, waiterInitFailed |-> FALSE,
                mspFailed |-> FALSE]
    /\ accepted = FALSE
    /\ sub = NoSub
    /\ ledger = [n |-> 0, code |-> -1]
    /\ SubsIdle
    /\ GRPCIdle
    /\ ClientIdle

Next ==
    \/ \E bs \in ArgBytesInputs : ArgBytes(bs)
    \/ \E ss \in ArgStringInputs : ArgString(ss)
    \/ \E in \in ArgJSONInputs : ArgJSON(in)
    \/ \E id \in Identities \ {CoreIdentity} : WithIdentity(id)
    \/ \E opts \in DoOptionLists, waiterFault \in BOOLEAN, nonce \in Nonces,
          signFault \in BOOLEAN :
            DoCall(opts, waiterFault, nonce, signFault)
    \/ Cancel
    \/ \E out \in EndorseOnMSPs(ctx.cancelled, doOpts.EndorsingMspIDs),
          envFault \in BOOLEAN :
            EndorseReturn(out, envFault)
    \/ BroadcastCall
    \/ \E reply \in {"ok", "refused", "cancelled"} : BroadcastReturn(reply)
    \/ \E block \in BlocksFor(proposal.TxID) : DeliverBlock(block)
    \/ \E ok \in BOOLEAN : WaitSubscribe(ok)
    \/ WaitResult
    \/ \E kind \in {"StreamClosed", "Cancelled"} : WaitAbort(kind)

Spec == Init /\ [][Next]_vars

InitSubs ==
    /\ SubmitIdle
    /\ GRPCIdle
    /\ ClientIdle
    /\ ts = NewServedSubscription(SubTxID)
    /\ hub = NoHub
    /\ res = NoResultCall

NextSubs ==
    \/ \E block \in SubsBlocks : Dispatch(block)
    \/ SendCompletes
    \/ StreamCloses
    \/ \E e \in {"closed", "failed"} : ErrorCloserEvent(e)
    \/ ResultCall
    \/ \E case \in {"result", "err"} : ResultReturn(case)

SpecSubs == InitSubs /\ [][NextSubs]_vars

\* Result's select takes a case once one can proceed
FairSpecSubs == SpecSubs /\ WF_vars(\E case \in {"result", "err"} : ResultReturn(case))

InitGRPC ==
    /\ SubmitIdle
    /\ SubsIdle
    /\ GRPCIdle
    /\ ClientIdle

NextGRPC ==
    \/ \E p \in Callers, conf \in ConfLists : ConnectionFromConfigs(p, conf)
    \/ \E p \in Callers : OptionsFromConfig(p)
    \/ \E p \in Callers, ok \in BOOLEAN : DialContext(p, ok)

SpecGRPC == InitGRPC /\ [][NextGRPC]_vars

InitClient ==
    /\ SubmitIdle
    /\ SubsIdle
    /\ GRPCIdle
    /\ ClientIdle

NextClient ==
    \/ \E m \in MSPConfigs, dir \in MSPDirs : LoadSigner(m, dir)
    \/ \E opts \in CoreOptLists, fault \in Faults, tolerant \in BOOLEAN :
            NewCall(opts, fault, tolerant)
    \/ NewOption
    \/ NewPool
    \/ NewDiscovery
    \/ NewReturn
    \/ \E p \in Callers, name \in ChannelNames : ChannelCall(p, name)
    \/ \E p \in Callers : ChannelLock(p)
    \/ \E p \in Callers, d \in Discoveries : ChannelDiscovered(p, d)
    \/ \E p \in Callers, ok \in BOOLEAN, ordOut \in {"orderer", "err", "crash"} :
            ChannelConnected(p, ok, ordOut)

SpecClient == InitClient /\ [][NextClient]_vars

-----------------------------------------------------------------------------
(* Properties *)

Done == pc = "done"

\* The endorsing MSP set Do works with is empty: no option gives one and
\* the core is configured with none
EffectiveMSPsEmpty ==
    /\ endorsingMSPs = <<>>
    /\ \A i \in 1..Len(doOptions \o options) : (doOptions \o options)[i].k # "msps"

\* C1: Do returns a nil error only if exactly as many endorsement
\* responses as endorsing MSPs were collected and all of them carry the
\* same payload.
C1_SuccessOnlyWithQuorum ==
    (Done /\ ret.err = Nil) =>
        /\ Len(peerResponses) = Len(doOpts.EndorsingMspIDs)
        /\ SamePayloads(peerResponses)

\* C2: the waiter's txID subscription is attached before Broadcast is
\* called, so a block holding the transaction that is delivered right
\* after the broadcast reaches the waiter.
C2_SubscribedBeforeBroadcast ==
    /\ calls.broadcast > 0 => sub.state # "none"
    /\ (pc = "waiting" /\ Committed) => sub.result # <<>>

\* C3: when an endorsing MSP fails to produce an endorsement, Do fails
\* with NotEnoughEndorsements reporting the received and the required
\* count, and Broadcast is never called.
C3_NotEnoughEndorsements ==
    (calls.mspFailed /\ pc # "endorsing") =>
        /\ Done
        /\ ret.err.kind = "NotEnoughEndorsements"
        /\ ret.err.a = Len(peerResponses)
        /\ ret.err.b = Len(doOpts.EndorsingMspIDs)
        /\ ret.err.a < ret.err.b
        /\ calls.broadcast = 0

C3_Witness ==
    /\ Done /\ calls.mspFailed
    /\ ret.err.kind = "NotEnoughEndorsements" /\ ret.err.a = 1 /\ ret.err.b = 2
    /\ ret.err.at = ""

\* C4: when every endorsing MSP responded and the responses' payloads are
\* not all equal, Do fails with EndorsementMismatch and Broadcast is never
\* called.
C4_EndorsementMismatch ==
    (/\ pc # "endorsing"
     /\ Len(peerResponses) > 0
     /\ Len(peerResponses) = Len(doOpts.EndorsingMspIDs)
     /\ ~SamePayloads(peerResponses)) =>
        /\ Done
        /\ ret.err.kind = "EndorsementMismatch"
        /\ calls.broadcast = 0

C4_Witness ==
    /\ Done /\ Len(peerResponses) = 2 /\ ~SamePayloads(peerResponses)
    /\ Response(peerResponses[1]) = Response(peerResponses[2])
    /\ ret.err.kind = "EndorsementMismatch"

\* The error kinds with which Wait fails without having read a result
WaitFailures == {"Cancelled", "StreamClosed", "Subscribe"}

\* C5, as claimed: after a successful broadcast Do returns the first
\* endorsement response and the txID, with a nil error exactly when the
\* transaction is VALID and an error naming the code when it is rejected
\* (stated for the runs in which Wait itself did not fail).
C5_AsClaimed ==
    (Done /\ accepted /\ ret.err.kind \notin WaitFailures) =>
        /\ ret.resp = Response(peerResponses[1])
        /\ ret.txID = proposal.TxID
        /\ (ret.err = Nil) <=> (ledger.code = TxValidationCode_VALID)
        /\ (Committed /\ ledger.code # TxValidationCode_VALID) =>
               ret.err = TxInvalid(ledger.code)

\* C5, amended: after a successful broadcast Do returns the proposal's
\* txID; the error is nil only if the transaction is VALID, and then the
\* first endorsement's response is returned; with an error the response
\* is nil; an error naming a rejection code names the transaction's code;
\* and unless Wait itself failed, the error is the one of the
\* transaction's code.
C5_ReturnAfterBroadcast ==
    (Done /\ accepted) =>
        /\ ret.txID = proposal.TxID /\ ret.txID # NoTxID
        /\ ret.err = Nil =>
               /\ ledger.code = TxValidationCode_VALID
               /\ ret.resp = Response(peerResponses[1])
        /\ ret.err # Nil => ret.resp = NilResponse
        /\ ret.err.kind = "TxInvalid" =>
               /\ ledger.code # TxValidationCode_VALID
               /\ ret.err = TxInvalid(ledger.code)
        /\ ret.err.kind \notin WaitFailures =>
               /\ Committed
               /\ ret.err = IF ledger.code = TxValidationCode_VALID THEN Nil
                            ELSE TxInvalid(ledger.code)

C5_Witness ==
    /\ Done /\ accepted
    /\ ret = Returned(NilResponse, proposal.TxID,
                      TxInvalid(TxValidationCode_MVCC_READ_CONFLICT))
    /\ ret.txID # NoTxID

\* C6: when the tx-waiter cannot be initialised, Do returns an error.
C6_WaiterInitErrorPropagated ==
    (Done /\ calls.waiterInitFailed) => ret.err # Nil

\* C7: with an empty endorsing MSP set Do fails with an error and never
\* calls Broadcast.
C7_EmptyMSPsFail ==
    EffectiveMSPsEmpty =>
        /\ calls.broadcast = 0
        /\ Done => ret.err # Nil

\* The error kinds with which the endorsement or the envelope fails
EndorsementFailures == {"NotEnoughEndorsements", "EndorsementMismatch", "envelope"}

\* C8: a scope cancelled after the proposal was sent and before the
\* broadcast makes Do return Cancelled (unless the endorsement failed by
\* itself), with Broadcast never called and no subscription left.
C8_CancelBeforeBroadcast ==
    (ctx.cancelled /\ ctx.at \in {"endorsing", "broadcast"}) =>
        /\ calls.broadcast = 0
        /\ Done => /\ ret.err.kind \in {"Cancelled"} \cup EndorsementFailures
                   /\ sub.state # "attached"

\* C9: Do fails with the aggregated argument error exactly when an ArgJSON
\* argument failed to marshal, and then nothing was composed, endorsed or
\* broadcast.
C9_BadArgsIffMarshalFailed ==
    Done =>
        /\ (ret.err.kind = "BadArgs") <=> marshalFailed
        /\ marshalFailed =>
               /\ ret = Returned(NilResponse, NoTxID,
                                 Error("BadArgs", Cardinality(DOMAIN err), 0))
               /\ proposal = NoProposal
               /\ calls.endorse = 0
               /\ calls.broadcast = 0

C9_Witness ==
    /\ Done /\ marshalFailed
    /\ ret.err = Error("BadArgs", 2, 0)
    /\ orderer # "nil"

\* C10: without an orderer Do fails with OrdererNotDefined and an empty
\* txID before a proposal is composed or sent, unless an argument failed
\* to encode: then the argument error is returned.
C10_OrdererNotDefined ==
    (Done /\ orderer = "nil") =>
        /\ ret.err = IF marshalFailed THEN Err(err) ELSE ErrOrdererNotDefined
        /\ ret.txID = NoTxID
        /\ proposal = NoProposal
        /\ calls.endorse = 0

C10_Witness ==
    /\ Done /\ orderer = "nil" /\ ~marshalFailed
    /\ ret = Returned(NilResponse, NoTxID, ErrOrdererNotDefined)
    /\ args # <<>>

-----------------------------------------------------------------------------
(* Properties of the subscription *)

\* The first block of blocks, from position k on, for which found holds;
\* 0 when there is none
RECURSIVE FirstBlock(_, _, _)
FirstBlock(blocks, found(_), k) ==
    IF k > Len(blocks) THEN 0
    ELSE IF found(blocks[k]) THEN k
    ELSE FirstBlock(blocks, found, k + 1)

\* The result the flag at position i of block b stands for
FlagResult(b, i) ==
    [code |-> b.flags[i],
     err |-> IF b.flags[i] = TxValidationCode_VALID THEN Nil ELSE TxInvalid(b.flags[i])]

\* The errors with which Result returns without having read a result
NoResultErrors == {ErrCodeIsClosed, ErrErrIsClosed, Error("Subscription", 0, 0)}

\* Result returned what it read from ts.result
ReadAResult == res.pc = "returned" /\ res.err \notin NoResultErrors

\* C11, as claimed: the subscription resolves at the first block holding
\* the subscribed txID, with the flag at the transaction's position, a nil
\* error iff the flag is VALID and else an error naming the code; blocks
\* without the txID produce no result.
C11_AsClaimed ==
    LET holds(b) == Position(b.data, ts.txId, 1) # 0
        k == FirstBlock(hub.seen, holds, 1)
    IN IF k = 0
       THEN hub.resolved = <<>> /\ ts.result = <<>> /\ ~ReadAResult
       ELSE hub.resolved =
                <<FlagResult(hub.seen[k], Position(hub.seen[k].data, ts.txId, 1))>>

\* C11, amended: the subscription resolves at the first block in which an
\* entry fails to unmarshal or holds the subscribed txID, whichever entry
\* comes first in that block: for the failing entry with code 0 and the
\* unmarshal error, for the transaction with the flag at its position, a
\* nil error iff the flag is VALID and else an error naming the code.
\* Blocks with neither produce no result, and a result that Result reads
\* is the one the subscription resolved with.
C11_ResolvesAtFirstReturn ==
    LET returns(b) == FirstReturn(b.data, ts.txId, 1) # 0
        k == FirstBlock(hub.seen, returns, 1)
        b == hub.seen[k]
        i == FirstReturn(b.data, ts.txId, 1)
    IN /\ IF k = 0
          THEN hub.resolved = <<>> /\ ts.result = <<>> /\ ~ReadAResult
          ELSE hub.resolved =
                   IF b.data[i] = Malformed
                   THEN <<[code |-> 0, err |-> Error("unmarshal", 0, 0)]>>
                   ELSE <<FlagResult(b, i)>>
       /\ ReadAResult => <<[code |-> res.code, err |-> res.err]>> = hub.resolved

C11_Witness ==
    /\ Len(hub.seen) = 2
    /\ hub.seen[1].data = <<OtherTxID>>
    /\ hub.seen[2].data = <<OtherTxID, SubTxID>>
    /\ hub.seen[2].flags = <<TxValidationCode_VALID, TxValidationCode_MVCC_READ_CONFLICT>>
    /\ res = [pc |-> "returned", code |-> TxValidationCode_MVCC_READ_CONFLICT,
              err |-> TxInvalid(TxValidationCode_MVCC_READ_CONFLICT), via |-> "result"]

\* The block stream of the subscription is closed
StreamClosed == ts.closed \/ ts.errc = "closed"

C13_DispatchNeverBlocks ==
    /\ hub.sending = <<>>
    /\ hub.others = Len(hub.seen)

\* C15: the envelope Do assembles and broadcasts is signed with the
\* identity that signed the proposal: the core's identity, or the one
\* the last WithIdentity or identity Do option named.
C15_EnvelopeSignedBySameIdentity ==
    LET overrides == SelectSeq(doOptions \o options, LAMBDA o : o.k = "identity")
    IN envelope # NoEnvelope =>
        /\ envelope.signer = proposal.Signer
        /\ envelope.signer = IF overrides = <<>> THEN CoreIdentity
                             ELSE overrides[Len(overrides)].id
        /\ envelope.txID = proposal.TxID

C15_Witness ==
    /\ calls.broadcast = 1
    /\ envelope.signer = "User2@Org1"
    /\ proposal.Signer = "User2@Org1"
    /\ CoreIdentity # "User2@Org1"

-----------------------------------------------------------------------------
(* Properties of the connection factory *)

\* C16: in the connection ConnectionFromConfigs builds, every endpoint's
\* address is dialled with that endpoint's own TLS settings.
C16_OwnTLSPerEndpoint ==
    \A p \in Callers :
        conns[p].conn # NoConn =>
            \A i \in 1..Len(conns[p].conf) :
                /\ conns[p].conn.addr[i] = conns[p].conf[i].Host
                /\ conns[p].conn.creds[i] =
                       TransportCredentials(conns[p].conf[i]).creds

\* The backoffs an endpoint without a retry config can get from its own
\* configuration: its timeout, or the declared default's
OwnBackoffs(c) == {c.Timeout, DefaultGRPCRetryConfigValue.Timeout}

\* The options built for an endpoint without a retry config come from
\* that endpoint alone
BackoffFromOwnConfig ==
    \A p \in Callers :
        (conns[p].pc \in {"dialing", "done"} /\ conns[p].retryConfig = "default") =>
            /\ conns[p].opts.max = DefaultGRPCRetryConfigValue.Max
            /\ conns[p].opts.backoff \in OwnBackoffs(conns[p].conf[1])

\* C17: building connection options leaves DefaultGRPCRetryConfig as it
\* was declared, and the backoff of an endpoint without a retry config
\* comes from that endpoint alone.
C17_DefaultRetryConfigUnchanged ==
    /\ DefaultGRPCRetryConfig = DefaultGRPCRetryConfigValue
    /\ BackoffFromOwnConfig

-----------------------------------------------------------------------------
(* Properties of the core's construction and of core.Channel *)

\* New has ended: it returned, or a nil dereference ended it
NewEnded == newc.pc \in {"done", "crashed"}

\* New returned an error and no core
NewFailed == newc.pc = "done" /\ newc.err # Nil /\ core = NoCore

\* The options of the call that are constructor k
OptsOf(k) == SelectSeq(newc.opts, LAMBDA o : o.k = k)

\* The config the options supply, NoConfig when none does
RECURSIVE ConfigOf(_)
ConfigOf(opts) ==
    IF opts = <<>> THEN NoConfig
    ELSE LET o == opts[Len(opts)]
         IN IF o.k = "WithConfigRaw" THEN ConfigNamed(o.v)
            ELSE IF o.k = "WithConfigYaml" /\ o.v = "local.yaml" THEN CfgLocal
            ELSE ConfigOf(SubSeq(opts, 1, Len(opts) - 1))

\* An option of the call that returns an error by itself
FailingOpt(o) ==
    \/ o.k = "WithConfigYaml" /\ o.v \in {"missing.yaml", "bad.yaml"}
    \/ o.k = "WithCrypto" /\ o.v \notin Suites

\* C14: while a caller of Channel waits for channel discovery or for the
\* dial of the channel's orderers, no caller asking for a cached channel
\* name waits for the mutex.
C14_CachedNameNotBlocked ==
    \A p \in Callers, q \in Callers :
        ~(/\ Suspended(p)
          /\ core.channelMx = p
          /\ chcalls[q].pc = "lock"
          /\ chcalls[q].name \in DOMAIN core.channels)

\* C18 (the default crypto suite is built before the options and its
\* failure ends New first, with an error and no core): New ends by returning an error and no core when the identity is
\* nil, when an option returns an error (the options after it are not
\* applied), when neither a pool nor a config was supplied (EmptyConfig
\* once the options are applied), and when the config's discovery type is
\* neither local nor gossip (UnknownDiscoveryType once the options are
\* applied and the config's peers are in the pool).
OptionsApplied == newc.applied = Len(newc.opts) /\ newc.err.kind # "UnknownSuite"

C18_ConfigErrorsFailConstruction ==
    NewEnded =>
        /\ signer.identity = NilIdentity => NewFailed
        /\ (signer.identity # NilIdentity /\ \E i \in 1..Len(newc.opts) :
                /\ FailingOpt(newc.opts[i])
                /\ \A j \in 1..(i - 1) : ~FailingOpt(newc.opts[j])) =>
               NewFailed /\ newc.applied < Len(newc.opts)
        /\ (signer.identity # NilIdentity /\ OptsOf("WithPeerPool") = <<>>
                /\ ~ConfigOf(newc.opts).set /\ OptsOf("WithConfigYaml") = <<>>) =>
               /\ NewFailed
               /\ OptionsApplied => newc.err = ErrEmptyConfig
        /\ (signer.identity # NilIdentity
                /\ ConfigOf(newc.opts).set
                /\ ConfigOf(newc.opts).Discovery.Type \notin {"local", "gossip"}) =>
               /\ NewFailed
               /\ OptionsApplied =>
                      newc.err.kind \in {"UnknownDiscoveryType", "NewPeer", "PoolAdd"}

\* C19: the MSP loader fails with MSPIDEmpty when the id is empty, with
\* MSPPathEmpty when the id is set and the path is empty, with
\* SignerNotFound when the loaded MSP has no signer, and returns no
\* identity in these cases.
C19_MSPLoaderFailures ==
    signer.pc = "done" =>
        /\ signer.m.ID = "" =>
               signer.err = ErrMSPIDEmpty /\ signer.identity = NilIdentity
        /\ (signer.m.ID # "" /\ signer.m.Path = "") =>
               signer.err = ErrMSPPathEmpty /\ signer.identity = NilIdentity
        /\ (signer.m.ID # "" /\ signer.m.Path # "" /\ signer.dir = "nosigner") =>
               signer.err = ErrSignerNotFound /\ signer.identity = NilIdentity
        /\ signer.err = Nil <=> signer.identity # NilIdentity

C19_Witness ==
    /\ signer.pc = "done"
    /\ signer.m = [ID |-> "", Path |-> ""]
    /\ signer.err = ErrMSPIDEmpty
    /\ signer.identity = NilIdentity

\* C20: when WithPeers(mspID, peers) is among the options, applying it
\* never ends New by a nil dereference, and when New succeeds the core's
\* pool holds every given peer under mspID.
C20_WithPeersInAnyOrder ==
    (NewEnded /\ OptsOf("WithPeers") # <<>>) =>
        /\ newc.pc # "crashed"
        /\ (newc.err = Nil) =>
               \A i \in 1..Len(OptsOf("WithPeers")) :
                   LET o == OptsOf("WithPeers")[i]
                   IN \A j \in 1..Len(o.peers) :
                          /\ core.peerPool \in PoolIDs
                          /\ <<o.v, o.peers[j]>> \in pools[core.peerPool]

\* A Channel call of caller p has returned
ChannelReturned(p) == chcalls[p].pc = "idle" /\ chcalls[p].n > 0

\* C21: NewChannel was called once for each cached channel name and for
\* no other, every Channel call that returned gave the instance cached
\* under its name, and no step replaces or removes a cached instance.
C21_OneInstancePerName ==
    /\ [](/\ core.created = Cardinality(DOMAIN core.channels)
          /\ \A p \in Callers :
                 ChannelReturned(p) =>
                     /\ chcalls[p].name \in DOMAIN core.channels
                     /\ chcalls[p].ret = core.channels[chcalls[p].name]
                     /\ chcalls[p].ret.id \in 1..core.created)
    /\ [][\A name \in DOMAIN core.channels :
              /\ name \in DOMAIN core'.channels
              /\ core'.channels[name] = core.channels[name]]_vars

\* Both callers asked for one name and got one instance, made once
C21_Witness ==
    /\ ChannelReturned(1) /\ ChannelReturned(2)
    /\ chcalls[1].n = 1 /\ chcalls[2].n = 1
    /\ chcalls[1].name = chcalls[2].name
    /\ chcalls[1].ret = chcalls[2].ret
    /\ chcalls[1].ret.id = 1
    /\ core.created = 1

\* The order of Do's steps: the fan-out of the proposal, the envelope
\* (made in the step that ends the fan-out), Broadcast, Wait; from each
\* step Do can return
DoOrder ==
    { <<"build", "endorsing">>, <<"endorsing", "broadcast">>,
      <<"broadcast", "broadcasting">>, <<"broadcasting", "wait">>,
      <<"wait", "waiting">> }
    \cup { <<at, "done">> : at \in {"build", "endorsing", "broadcasting", "wait", "waiting"} }

\* Do returned the orderer's refusal
BroadcastRefused == Done /\ ret.err.kind = "OrdererRefused"

\* C22: Do's steps come in the order fan-out, envelope, Broadcast, Wait:
\* the envelope is there only after the fan-out, Broadcast is called with
\* the envelope and at most once, Wait is called only after the orderer
\* accepted; and a refusal by the orderer is returned with the proposal's
\* txID, no subscription of the waiter having been made.
C22_StepOrder ==
    /\ [](/\ calls.broadcast <= 1
          /\ envelope # NoEnvelope => calls.endorse = 1 /\ pc \notin {"build", "endorsing"}
          /\ calls.broadcast = 1 => envelope # NoEnvelope
          /\ pc \in {"wait", "waiting"} => calls.broadcast = 1 /\ accepted
          /\ sub.state # "none" => calls.broadcast = 1 /\ accepted
          /\ BroadcastRefused =>
                 /\ ret.err = Wrap("broadcast transaction", Error("OrdererRefused", 0, 0))
                 /\ ret.txID = proposal.TxID /\ ret.txID # NoTxID
                 /\ ret.resp = NilResponse
                 /\ sub.state = "none")
    /\ [][pc' # pc => <<pc, pc'>> \in DoOrder]_vars

C22_Witness ==
    /\ BroadcastRefused
    /\ calls.endorse = 1 /\ calls.broadcast = 1
    /\ envelope # NoEnvelope
    /\ ret.txID = proposal.TxID
    /\ sub.state = "none"

\* C23: when Result returns while a result is in ts.result and the error
\* channel is closed, it returns that result, its code and its error,
\* whichever case its select takes; it returns `err is closed` only when
\* the error channel is closed and ts.result holds nothing.
C23_DeliveredResultWins ==
    [][(res.pc = "selecting" /\ res'.pc = "returned") =>
          /\ (ts.result # <<>> /\ ts.errc = "closed") =>
                 /\ res'.code = Head(ts.result).code
                 /\ res'.err = Head(ts.result).err
                 /\ res'.err # ErrErrIsClosed
                 /\ ts'.result = Tail(ts.result)
          /\ res'.err = ErrErrIsClosed => ts.result = <<>> /\ ts.errc = "closed"]_vars

\* Result saw the closed error channel first and returned the result
\* the dispatcher had delivered
C23_Witness ==
    /\ res.pc = "returned"
    /\ res.via = "err"
    /\ ts.errc = "closed"
    /\ hub.resolved = <<[code |-> res.code, err |-> res.err]>>
    /\ res.code = TxValidationCode_MVCC_READ_CONFLICT

\* C24: a builder call that adds arguments keeps the arguments added
\* before it, in their order, and the proposal Do signs has the function
\* name followed by the builder's arguments.
C24_ChainedArgsKept ==
    /\ [](proposal # NoProposal => proposal.Args = FnArgs(Fn, args))
    /\ [][/\ Len(args') >= Len(args)
          /\ SubSeq(args', 1, Len(args)) = args]_vars

\* C25: when Do returns an error after it composed the signed proposal,
\* it returns the proposal's txID with it, and a subscription the waiter
\* made is for that txID.
C25_TxIDReturnedOnFailure ==
    /\ (Done /\ proposal # NoProposal /\ ret.err # Nil) =>
           ret.txID = proposal.TxID /\ ret.txID # NoTxID
    /\ sub.state # "none" => sub.txId = proposal.TxID

\* C26: no Channel call ends without returning a channel, and a returned
\* channel has the orderer built over the connection to the discovered
\* addresses, or the core's default orderer; the default one whenever
\* discovery gave no address.
C26_OrdererChoice ==
    /\ [](/\ \A p \in Callers : chcalls[p].pc # "crashed"
          /\ \A name \in DOMAIN core.channels :
                 core.channels[name].ord \in {"discovered", core.orderer})
    /\ [][\A p \in Callers :
              (Suspended(p) /\ ChannelReturned(p)' /\ chcalls'[p].cfgs = <<>>) =>
                  chcalls'[p].ret.ord = core.orderer]_vars

\* core.CurrentIdentity, lines 39-41
CurrentIdentity(c) == c.identity

\* core.CryptoSuite, lines 43-45
CryptoSuite(c) == c.cs

\* New returned a core and no error
NewSucceeded == newc.pc = "done" /\ newc.err = Nil

\* C27: after New succeeded, the suite the signing identity of
\* CurrentIdentity was made with is the suite CryptoSuite returns.
C27_IdentityUsesCoreSuite ==
    NewSucceeded => CurrentIdentity(core).suite = CryptoSuite(core)

====
